---- MODULE Spec2Model ----
(***************************************************************************)
(* qemu-vsock-send: main() of tools/qemu-vsock-send.cpp as a state machine *)
(* over the system calls it makes (socket, connect, send, recv), the       *)
(* request string it builds and what it writes to stdout / stderr.         *)
(*                                                                         *)
(* Byte strings received from the peer are kept run-length encoded (a      *)
(* sequence of [b |-> byte, n |-> count], adjacent runs of different       *)
(* bytes), so that the 4096-byte buffer keeps its real size.               *)
(***************************************************************************)
EXTENDS Integers, Sequences, FiniteSets, TLC

VARIABLES argc, argv, pc, s, connected, i, out, buf, reply,
          msg_len, calls, stdout, stderr, exit_status

vars == <<argc, argv, pc, s, connected, i, out, buf, reply,
          msg_len, calls, stdout, stderr, exit_status>>

(* ------------------------------ bounds -------------------------------- *)
MaxTokens == 2
MaxRuns == 2

(* ------------------------- program constants -------------------------- *)
BufSize == 4096
EXIT_SUCCESS == 0
EXIT_FAILURE == 1
UsageStatus == 1

(* ------------------------------ inputs -------------------------------- *)
ProgName == "qemu-vsock-send"
TokenSet == {"", "STATUS", "k v"}
Bytes == {0, 65, 66}
RunLens == {1, BufSize - 1, BufSize}
SockFds == {3}

TokenSeqs == UNION {[1..n -> TokenSet] : n \in 0..MaxTokens}

Runs == [b : Bytes, n : RunLens]

Canonical(r) == \A k \in 1..(Len(r) - 1) : r[k].b # r[k + 1].b

Replies == {r \in UNION {[1..n -> Runs] : n \in 0..MaxRuns} : Canonical(r)}

(* --------------------------- byte strings ----------------------------- *)
Min(a, b) == IF a < b THEN a ELSE b

RECURSIVE Total(_)
Total(r) == IF r = <<>> THEN 0 ELSE Head(r).n + Total(Tail(r))

\* r1 followed by r2, merging the two runs that meet when they hold one byte
Cat(r1, r2) ==
    IF r1 = <<>> THEN r2
    ELSE IF r2 = <<>> THEN r1
    ELSE IF r1[Len(r1)].b = r2[1].b
         THEN SubSeq(r1, 1, Len(r1) - 1)
              \o <<[b |-> r2[1].b, n |-> r1[Len(r1)].n + r2[1].n]>>
              \o Tail(r2)
         ELSE r1 \o r2

\* the first n bytes of r
RECURSIVE Take(_, _)
Take(r, n) ==
    IF n <= 0 \/ r = <<>> THEN <<>>
    ELSE IF Head(r).n <= n THEN <<Head(r)>> \o Take(Tail(r), n - Head(r).n)
    ELSE <<[b |-> Head(r).b, n |-> n]>>

\* r without its first n bytes
RECURSIVE Drop(_, _)
Drop(r, n) ==
    IF n <= 0 \/ r = <<>> THEN r
    ELSE IF Head(r).n <= n THEN Drop(Tail(r), n - Head(r).n)
    ELSE <<[b |-> Head(r).b, n |-> Head(r).n - n]>> \o Tail(r)

\* the bytes of r before its first NUL byte
RECURSIVE UntilNul(_)
UntilNul(r) ==
    IF r = <<>> \/ Head(r).b = 0 THEN <<>>
    ELSE <<Head(r)>> \o UntilNul(Tail(r))

ZeroBuf == <<[b |-> 0, n |-> BufSize]>>

(* ------------------- size_t (64 bits, four 16-bit limbs) -------------- *)
\* conversion of a signed return value to size_t: two's complement, the
\* sign extended over the upper limbs; limb 1 is the least significant
ToSizeT(r) ==
    LET ext == IF r < 0 THEN 65535 ELSE 0
    IN  <<r % 65536, (r \div 65536) % 65536, ext, ext>>

RECURSIVE LessFrom(_, _, _)
LessFrom(a, b, k) ==
    IF k = 0 THEN FALSE
    ELSE IF a[k] # b[k] THEN a[k] < b[k]
    ELSE LessFrom(a, b, k - 1)

\* a <= b on size_t (the comparison off by one)
SizeLessEq(a, b) == a = b \/ LessFrom(a, b, 4)

\* a < b on size_t
SizeLess(a, b) == LessFrom(a, b, 4)

\* (int) a: the low 32 bits read as a signed integer
ToInt(a) ==
    IF a[2] < 32768 THEN a[2] * 65536 + a[1]
    ELSE (a[2] - 65536) * 65536 + a[1]

(* ----------------------------- formatting ----------------------------- *)
\* m3_string_format("%s ", arg): snprintf measures, then writes, the
\* argument followed by one space; the result drops the terminating NUL
\* (the format without its trailing space)
m3_string_format_bare(arg) ==
    LET size_s == Len(arg) + 1
    IN  [thrown |-> size_s <= 0, str |-> arg]

\* (thrown is the std::runtime_error of a non-positive size)
m3_string_format(arg) ==
    LET size_s == (Len(arg) + 1) + 1
    IN  [thrown |-> size_s <= 0, str |-> arg \o " "]

\* fprintf(stderr, "syntax: %s key(s)\n", argv[0])
UsageMessage(prog) == "syntax: " \o prog \o " key(s)\n"

\* printf("Value: %.*s", prec, b): at most prec bytes of b, stopping at the
\* first NUL; a negative precision counts as no precision
PrintfValue(prec, b) ==
    [label |-> "Value: ",
     bytes |-> IF prec < 0 THEN UntilNul(b) ELSE UntilNul(Take(b, prec))]

Call(op, fd, data, len, ret) ==
    [op |-> op, fd |-> fd, data |-> data, len |-> len, ret |-> ret]

(* ------------------------------- Init --------------------------------- *)
Init ==
    /\ \E toks \in TokenSeqs :
          /\ argc = Len(toks) + 1
          /\ argv = [k \in 0..Len(toks) |-> IF k = 0 THEN ProgName ELSE toks[k]]
    /\ pc = "check"
    /\ s = -1
    /\ connected = FALSE
    /\ i = 0
    /\ out = ""
    /\ buf = <<>>
    /\ reply = <<>>
    /\ msg_len = <<>>
    /\ calls = <<>>
    /\ stdout = <<>>
    /\ stderr = <<>>
    /\ exit_status = -1

(* ------------------------------ actions ------------------------------- *)
\* (the argument check off by one)
UsageErrorLoose == argc < 1

\* if (argc < 2)
UsageError == argc < 2

\* fprintf(stderr, ...); return 1;
Usage ==
    /\ pc = "check"
    /\ UsageError
    /\ stderr' = Append(stderr, UsageMessage(argv[0]))
    /\ exit_status' = UsageStatus
    /\ pc' = "done"
    /\ UNCHANGED <<argc, argv, s, connected, i, out, buf, reply, msg_len,
                   calls, stdout>>

\* the argument check passed
ArgsOk ==
    /\ pc = "check"
    /\ ~UsageError
    /\ pc' = "socket"
    /\ UNCHANGED <<argc, argv, s, connected, i, out, buf, reply, msg_len,
                   calls, stdout, stderr, exit_status>>

\* int s = socket(AF_VSOCK, SOCK_STREAM, 0): a descriptor, or -1
Socket ==
    /\ pc = "socket"
    /\ \E fd \in SockFds \cup {-1} :
          /\ s' = fd
          /\ calls' = Append(calls, Call("socket", fd, "", 0, fd))
    /\ pc' = "connect"
    /\ UNCHANGED <<argc, argv, connected, i, out, buf, reply, msg_len,
                   stdout, stderr, exit_status>>

\* connect(s, &addr, sizeof addr): the result is not looked at. It fails on
\* an invalid descriptor and when nothing listens at the endpoint
Connect ==
    /\ pc = "connect"
    /\ \E ret \in (IF s = -1 THEN {-1} ELSE {-1, 0}) :
          /\ connected' = (ret = 0)
          /\ calls' = Append(calls, Call("connect", s, "", 0, ret))
    /\ i' = 1
    /\ pc' = "loop"
    /\ UNCHANGED <<argc, argv, s, out, buf, reply, msg_len, stdout, stderr,
                   exit_status>>

\* for (i = 1; i < argc; i++) out += m3_string_format("%s ", argv[i]);
\* an exception leaves main uncaught and the process aborts (SIGABRT)
FormatToken ==
    /\ pc = "loop"
    /\ i < argc
    /\ LET f == m3_string_format(argv[i])
       IN  IF f.thrown
           THEN /\ pc' = "done"
                /\ exit_status' = 134
                /\ UNCHANGED <<i, out>>
           ELSE /\ out' = out \o f.str
                /\ i' = i + 1
                /\ UNCHANGED <<pc, exit_status>>
    /\ UNCHANGED <<argc, argv, s, connected, buf, reply, msg_len, calls,
                   stdout, stderr>>

\* out += "\n";
AppendNewline ==
    /\ pc = "loop"
    /\ ~(i < argc)
    /\ out' = out \o "\n"
    /\ pc' = "send"
    /\ UNCHANGED <<argc, argv, s, connected, i, buf, reply, msg_len, calls,
                   stdout, stderr, exit_status>>

\* what one send of len bytes can return: an error, a short count, all of it
SendRets(len) == IF connected THEN {-1, 1, len} ELSE {-1}

\* (a send that is repeated until the whole request was accepted)
SendRetrying ==
    /\ pc = "send"
    /\ \E ret \in SendRets(Len(out)) :
          /\ calls' = Append(calls, Call("send", s, out, Len(out), ret))
          /\ pc' = IF 0 <= ret /\ ret < Len(out) THEN "send" ELSE "recv"
    /\ Len(calls) < 6
    /\ UNCHANGED <<argc, argv, s, connected, i, out, buf, reply, msg_len,
                   stdout, stderr, exit_status>>

\* send(s, out.c_str(), out.length(), 0): the result is not looked at
Send ==
    /\ pc = "send"
    /\ \E ret \in SendRets(Len(out)) :
          calls' = Append(calls, Call("send", s, out, Len(out), ret))
    /\ pc' = "recv"
    /\ UNCHANGED <<argc, argv, s, connected, i, out, buf, reply, msg_len,
                   stdout, stderr, exit_status>>

\* the byte counts one recv into a buffer of cap bytes can return when the
\* peer has written r: the bytes up to the end of one of its runs, at most cap
RecvCounts(r, cap) ==
    {Min(Total(SubSeq(r, 1, k)), cap) : k \in 1..Len(r)}

\* what one recv can return: an error, 0 when the peer closed without
\* writing, else a count of bytes of the peer's reply
RecvRets(r, cap) ==
    IF ~connected THEN {-1}
    ELSE IF r = <<>> THEN {-1, 0}
    ELSE {-1} \cup RecvCounts(r, cap)

\* char buf[4096] = {0}; size_t msg_len = recv(s, &buf, 4096, 0);
Recv ==
    /\ pc = "recv"
    /\ \E r \in Replies : \E ret \in RecvRets(r, BufSize) :
          /\ reply' = (IF connected THEN r ELSE <<>>)
          /\ buf' = Cat(Take(r, ret), Drop(ZeroBuf, ret))
          /\ msg_len' = ToSizeT(ret)
          /\ calls' = Append(calls, Call("recv", s, "", BufSize, ret))
    /\ pc' = "classify"
    /\ UNCHANGED <<argc, argv, s, connected, i, out, stdout, stderr,
                   exit_status>>

\* (msg_len compared as a signed integer)
IsShortSigned(len) == ToInt(len) < BufSize

\* (an empty read counted as a failure)
IsShortNonEmpty(len) == SizeLess(len, ToSizeT(BufSize * 1)) /\ len # ToSizeT(0)

\* if (msg_len < sizeof(buffer) * sizeof(char))
IsShort(len) == SizeLess(len, ToSizeT(BufSize * 1))

\* printf("Value: %.*s", (int)msg_len, buf); return EXIT_SUCCESS;
PrintValue ==
    /\ pc = "classify"
    /\ IsShort(msg_len)
    /\ stdout' = Append(stdout, PrintfValue(ToInt(msg_len), buf))
    /\ exit_status' = EXIT_SUCCESS
    /\ pc' = "done"
    /\ UNCHANGED <<argc, argv, s, connected, i, out, buf, reply, msg_len,
                   calls, stderr>>

\* else return EXIT_FAILURE;
ReturnFailure ==
    /\ pc = "classify"
    /\ ~IsShort(msg_len)
    /\ exit_status' = EXIT_FAILURE
    /\ pc' = "done"
    /\ UNCHANGED <<argc, argv, s, connected, i, out, buf, reply, msg_len,
                   calls, stdout, stderr>>

Next ==
    \/ Usage
    \/ ArgsOk
    \/ Socket
    \/ Connect
    \/ FormatToken
    \/ AppendNewline
    \/ Send
    \/ Recv
    \/ PrintValue
    \/ ReturnFailure

Spec == Init /\ [][Next]_vars

(* ------------------------- properties: helpers ------------------------ *)
Tokens == [k \in 1..(argc - 1) |-> argv[k]]

Done == pc = "done"

CallOps == [k \in 1..Len(calls) |-> calls[k].op]

IsPrefix(a, b) == Len(a) <= Len(b) /\ a = SubSeq(b, 1, Len(a))

HasCall(op) == \E k \in 1..Len(calls) : calls[k].op = op

Connected == Len(calls) >= 2 /\ calls[2].op = "connect" /\ calls[2].ret = 0

ConnectFailed == Len(calls) >= 2 /\ calls[2].op = "connect" /\ calls[2].ret = -1

Sent == Len(calls) >= 3 /\ calls[3].op = "send"

Received == Len(calls) >= 4 /\ calls[4].op = "recv"

RECURSIVE Join(_, _)
Join(T, sep) ==
    IF T = <<>> THEN ""
    ELSE IF Len(T) = 1 THEN T[1]
    ELSE T[1] \o sep \o Join(Tail(T), sep)

RECURSIVE EachThenSpace(_)
EachThenSpace(T) ==
    IF T = <<>> THEN "" ELSE T[1] \o " " \o EachThenSpace(Tail(T))

RECURSIVE SumLen(_)
SumLen(T) == IF T = <<>> THEN 0 ELSE Len(T[1]) + SumLen(Tail(T))

(* ------------------------------ claims -------------------------------- *)
\* C1: started with no token (argc < 2) the program writes the usage
\* message to stderr and exits with status 1; in that run no socket is
\* created and no connect, send or recv is made.
C1_UsageWithoutSocket ==
    argc < 2 =>
        /\ calls = <<>>
        /\ s = -1
        /\ pc \in {"check", "done"}
        /\ stdout = <<>>
        /\ Done => /\ exit_status = 1
                   /\ stderr = <<UsageMessage(argv[0])>>

C1_Witness == argc < 2 /\ Done

\* C2: the request handed to send is join(T, " ") + "\n": the tokens
\* separated by exactly one space, followed by exactly one newline.
C2_RequestIsJoin ==
    Sent => calls[3].data = Join(Tokens, " ") \o "\n"

\* C3: the request handed to send is every token followed by one space (the
\* last one too), then one newline; for the single token STATUS it is
\* "STATUS \n"; its length is the sum of the token lengths plus the number of
\* tokens plus one.
C3_SpaceAfterEveryToken ==
    Sent =>
        /\ calls[3].data = EachThenSpace(Tokens) \o "\n"
        /\ calls[3].len = SumLen(Tokens) + Len(Tokens) + 1
        /\ Len(calls[3].data) = calls[3].len
        /\ Tokens = <<"STATUS">> => calls[3].data = "STATUS \n"

C3_Witness == Sent /\ Len(Tokens) >= 2 /\ Tokens[Len(Tokens)] = "STATUS"

\* C4: when the peer accepted the connection and recv returned n < 4096
\* bytes, the process exits 0 and stdout holds "Value: " followed by exactly
\* those n bytes, whatever they are.
C4_RoundTrip ==
    (Done /\ Connected /\ Received /\ 0 <= calls[4].ret /\ calls[4].ret < BufSize) =>
        /\ exit_status = 0
        /\ stdout = <<[label |-> "Value: ", bytes |-> Take(reply, calls[4].ret)]>>

\* C5: when the peer replied with 4096 bytes or more and recv filled the
\* whole buffer, the run is a failure: non-zero exit status, nothing on
\* stdout.
C5_FullBufferFails ==
    (Received /\ calls[4].ret = BufSize) =>
        /\ Total(reply) >= BufSize
        /\ buf = Take(reply, BufSize)
        /\ stdout = <<>>
        /\ pc \in {"classify", "done"}
        /\ Done => exit_status # 0

C5_Witness ==
    Done /\ Received /\ calls[4].ret = BufSize /\ Total(reply) > BufSize

\* C6: when connect fails because nothing listens at the endpoint, the
\* program exits non-zero without attempting the send or the recv.
C6_ConnectFailedStops ==
    (s # -1 /\ ConnectFailed) =>
        /\ ~HasCall("send")
        /\ ~HasCall("recv")
        /\ Done => exit_status # 0

\* C7: a run that passes the argument check makes exactly one connect, then
\* one send, then one recv, in this order and on the one socket, whatever
\* each call returns: none is repeated and the recv never precedes the send.
C7_OneConnectSendRecv ==
    argc >= 2 =>
        /\ IsPrefix(CallOps, <<"socket", "connect", "send", "recv">>)
        /\ \A k \in 1..Len(calls) : calls[k].fd = s
        /\ pc \in {"classify", "done"} => Len(calls) = 4
        /\ pc = "recv" => Len(calls) = 3
        /\ pc = "send" => Len(calls) = 2

C7_Witness ==
    /\ Done /\ argc >= 2 /\ Received
    /\ calls[3].ret = 1 /\ calls[3].ret < calls[3].len

\* C8: the socket is closed by the program on every exit path after it was
\* created: the process never exits with the descriptor still open.
C8_SocketClosedAtExit ==
    (Done /\ s # -1) =>
        \E k \in 1..Len(calls) : calls[k].op = "close" /\ calls[k].fd = s

\* C9: when recv reports an error (-1) msg_len wraps to 2^64 - 1, which is
\* not below 4096, so the run is a failure: exit status non-zero and nothing
\* of the zero-initialised buffer (nothing at all) is written to stdout.
C9_RecvErrorWraps ==
    (Received /\ calls[4].ret < 0) =>
        /\ msg_len = <<65535, 65535, 65535, 65535>>
        /\ ~SizeLess(msg_len, ToSizeT(BufSize))
        /\ buf = ZeroBuf
        /\ stdout = <<>>
        /\ Done => exit_status # 0

C9_Witness == Done /\ Connected /\ Received /\ calls[4].ret = -1

\* C10: the outcome is decided by what the one recv returned alone: the run
\* is a success exactly when 0 <= ret < 4096; a recv of 0 bytes prints
\* "Value: " with an empty payload and exits 0, whatever the send returned.
C10_OutcomeByRecvAlone ==
    (Done /\ Received) =>
        /\ exit_status = 0 <=> (0 <= calls[4].ret /\ calls[4].ret < BufSize)
        /\ exit_status = 0 <=> stdout # <<>>
        /\ calls[4].ret = 0 =>
              /\ exit_status = 0
              /\ stdout = <<[label |-> "Value: ", bytes |-> <<>>]>>

C10_Witness ==
    /\ Done /\ Received /\ calls[4].ret = 0
    /\ calls[3].ret < calls[3].len

====
